---- MODULE Spec2Model ----
(***************************************************************************)
(* Resumable batch geocoding: the three runner scripts                     *)
(* (geocode_vworld.py = "base", geocode_vworld_daily.py = "daily",         *)
(* geocode_vworld_smart.py = "smart"), the files they share under output/  *)
(* and the recovery tools merge_daily_backups.py and fix_and_recover.py.   *)
(*                                                                         *)
(* Rows are numbered 1..N here; the pandas label of row i is i-1.  A       *)
(* timestamp is the pair <<calendar day, run number>>: the code only ever  *)
(* looks at its date prefix, the run number tells two stampings apart.     *)
(* NaN, None and the empty CSV field are one value (NoVal / NoTs): every   *)
(* to_csv writes them as the empty field and read_csv reads NaN back.      *)
(***************************************************************************)
EXTENDS Integers, Sequences, FiniteSets, TLC

\* ----------------------------------------------------------------- bounds
NRows == 2          \* rows of input/charger_v2.csv
MaxRuns == 2        \* runner invocations in one behaviour
DeepRows == 3       \* rows of the input, fault-free specification
DeepRuns == 3       \* runner invocations, fault-free specification
LadderRows == 3     \* rows of the input, single-run specification
MaxTools == 1       \* recovery-tool invocations in one behaviour
MaxDay == 2         \* calendar days
DailyLimit == 2     \* DAILY_LIMIT, scaled down from 40000 / 80000
Cadence == 2        \* rows-between-checkpoints modulus, scaled down from 1000

Days == 1..MaxDay
Variants == {"base", "daily", "smart"}

\* ------------------------------------------------------------ data model
NoVal == 0
NoTs == <<0, 0>>

\* An input record is named by a number a.  Each of its two address columns
\* is described by: present (not NaN, not empty), clean (the length of what
\* clean_address returns for it) and cands (the number of candidates
\* extract_address_candidates yields for the cleaned address).
NoAddr == [present |-> FALSE, clean |-> 0, cands |-> 0]
Addr(len, n) == [present |-> TRUE, clean |-> len, cands |-> n]

\* records 5 and 6 have addresses that clean_address shortens to 3 and 0
\* characters, and a parcel address that cleans to 4
AddressOf(a) ==
  CASE a = 5     -> [road |-> Addr(3, 1), parcel |-> NoAddr]
    [] a = 6     -> [road |-> Addr(0, 0), parcel |-> Addr(4, 1)]
    [] a % 4 = 1 -> [road |-> Addr(9, 2), parcel |-> Addr(9, 1)]
    [] a % 4 = 2 -> [road |-> Addr(9, 1), parcel |-> NoAddr]
    [] a % 4 = 3 -> [road |-> NoAddr, parcel |-> Addr(9, 1)]
    [] OTHER     -> [road |-> NoAddr, parcel |-> NoAddr]

\* a work list that also takes an address of exactly 3 characters
QualifiesMut(c) == c.present /\ c.clean >= 3
\* `if address and not pd.isna(address)` ... `if cleaned and len(cleaned) > 3`
Qualifies(c) == c.present /\ c.clean > 3

\* the number of candidates geocode_address will try for each address type
\* of record a (0: the address is not put on the work list)
InputRow(a) ==
  [road |-> IF Qualifies(AddressOf(a).road) THEN AddressOf(a).road.cands ELSE 0,
   parcel |-> IF Qualifies(AddressOf(a).parcel) THEN AddressOf(a).parcel.cands
              ELSE 0]
\* The input file of n records holds the records 1..n.
InputOf(n) == [i \in 1..n |-> i]
\* ... or every third record: 1 (road and parcel address), 4 (no address),
\* 7 (parcel address only), ...
InputMixed(n) == [i \in 1..n |-> 3 * i - 2]

\* The geocoding service's answer for (any candidate of) record a:
\* response.result.point = {x: longitude, y: latitude}.
Point(a) == [x |-> 100 + a, y |-> a]

\* ... and for its n-th candidate in the order of Attempts: a coarser
\* candidate resolves to another point
Answer(a, n) == [x |-> Point(a).x + 10 * (n - 1), y |-> Point(a).y + 10 * (n - 1)]

\* df = read_csv(INPUT_FILE); df[lat] = None; df[lon] = None;
\* df[status] = 'pending'; df[ts] = None
FreshRow(a) == [addr |-> a, lat |-> NoVal, lon |-> NoVal,
                status |-> "pending", ts |-> NoTs]
Fresh(inp) == [i \in 1..Len(inp) |-> FreshRow(inp[i])]

\* A file: absent, or a sequence of CSV rows.  whole = FALSE marks a file cut
\* short by a crash in the middle of a write (a strict prefix of the rows; no
\* rows at all stands for the zero-byte file that read_csv rejects).
NoFile == [exists |-> FALSE, whole |-> FALSE, rows |-> <<>>]
\* a to_csv that leaves out the last row
WriteCsvMut(d) ==
  [exists |-> TRUE, whole |-> TRUE, rows |-> SubSeq(d, 1, Len(d) - 1)]
\* what df.to_csv(path, index=False) leaves in a file
WriteCsv(d) == [exists |-> TRUE, whole |-> TRUE, rows |-> d]
Truncated(d, n) == [exists |-> TRUE, whole |-> FALSE, rows |-> SubSeq(d, 1, n)]
Readable(f) == f.exists /\ (f.whole \/ f.rows /= <<>>)

HasCoord(r) == r.lat /= NoVal /\ r.lon /= NoVal
StartsWith(t, d) == t /= NoTs /\ t[1] = d

RECURSIVE Ascending(_)
\* the labels in S in ascending order, as a boolean mask selects them
Ascending(S) ==
  IF S = {} THEN <<>>
  ELSE LET x == CHOOSE y \in S : \A z \in S : y <= z
       IN <<x>> \o Ascending(S \ {x})

IsSuccess(r) == r.status = "success"
IsPending(r) == r.status = "pending"
IsFailed(r) == r.status = "failed"

\* the labels of the rows of d with a given status, and those stamped on day
WithStatus(d, st) == {i \in 1..Len(d) : d[i].status = st}
Today(d, day) == {i \in 1..Len(d) : StartsWith(d[i].ts, day)}

\* None, as load_progress returns it
NoDf == [some |-> FALSE, rows |-> <<>>]
\* a load that hands back whatever rows a file it cannot read holds
load_progressMut(f, ok) ==
  IF f.exists THEN [some |-> TRUE, rows |-> f.rows] ELSE NoDf
\* load_progress: the file's rows, or None when the file is missing or
\* read_csv raises (ok = FALSE: it raises although the file has rows)
load_progress(f, ok) ==
  IF Readable(f) /\ ok THEN [some |-> TRUE, rows |-> f.rows] ELSE NoDf

\* check_today_usage: rows whose timestamp starts with today_str
check_today_usage(d, day) == Cardinality(Today(d, day))

\* analyze_situation asks the operator before going on when this many rows
\* carry today's date (39000 in the source, next to a 40000 limit)
NearLimit == DailyLimit

\* -------------------------------------------------------- the row loop
\* `if df.at[idx, status] == 'success': continue` (base, daily); the smart
\* runner iterates over the pending labels only and has no such test
SkipRowMut(v, r) == v /= "smart" /\ r.status = "failed"
SkipRow(v, r) == v /= "smart" /\ r.status = "success"

\* `if geocoder.today_count >= DAILY_LIMIT: break`
QuotaReachedMut(cnt, lim) == cnt > lim
QuotaReached(cnt, lim) == cnt >= lim

\* a geocoder that refuses one request before the limit
LimitReachedMut(cnt, lim) == cnt >= lim - 1
\* geocode_address: `if self.today_count >= self.daily_limit`
LimitReached(cnt, lim) == cnt >= lim

\* a ladder that tries the parcel address before the road address
AttemptsMut(i) ==
  [n \in 1..InputRow(i).parcel |-> [type |-> "parcel", cand |-> n]] \o
  [n \in 1..InputRow(i).road |-> [type |-> "road", cand |-> n]]
\* addresses_to_try flattened with extract_address_candidates: road
\* candidates in order, then parcel candidates in order
Attempts(i) ==
  [n \in 1..InputRow(i).road |-> [type |-> "road", cand |-> n]] \o
  [n \in 1..InputRow(i).parcel |-> [type |-> "parcel", cand |-> n]]

\* a parse that takes the point's x for the latitude
ParsePointMut(p) == [lat |-> p.x, lon |-> p.y, status |-> "success"]
\* _try_geocode on a 200/OK response carrying a point:
\* lon = float(point['x']), lat = float(point['y'])
ParsePoint(p) == [lat |-> p.y, lon |-> p.x, status |-> "success"]
Outcome(s) == [lat |-> NoVal, lon |-> NoVal, status |-> s]

\* a work list that walks the pending rows from the last one to the first
TodoOfMut(v, d) ==
  IF v = "smart"
    THEN LET asc == Ascending(WithStatus(d, "pending"))
         IN [n \in 1..Len(asc) |-> asc[Len(asc) + 1 - n]]
    ELSE [i \in 1..Len(d) |-> i]
\* the statements `for idx in ...` iterates over
TodoOf(v, d) ==
  IF v = "smart" THEN Ascending(WithStatus(d, "pending"))
  ELSE [i \in 1..Len(d) |-> i]

\* ------------------------------------------------------ addresses as text
\* An address string is a sequence of characters.  A Hangul syllable is
\* written by its romanisation ("gang" for U+AC15), any other character by
\* itself.  len() of a string is Len of the sequence.
Digits == {"0", "1", "2", "3", "4", "5", "6", "7", "8", "9"}
\* \d, \s and [가-힣]
IsDigit(c) == c \in Digits
IsSpace(c) == c = " "
IsHangul(c) == c \notin Digits \cup {" ", "(", ")", "[", "]", "-", "B"}

\* the character classes of extract_address_candidates:
\* [시도군구], [읍면동], [읍면동리], [로길대로가], [시군구]
SiDoGunGu == {"si", "do", "gun", "gu"}
EupMyeonDong == {"eup", "myeon", "dong"}
EupMyeonDongRi == {"eup", "myeon", "dong", "ri"}
RoGilDaeGa == {"ro", "gil", "dae", "ga"}
SiGunGu == {"si", "gun", "gu"}

\* a value read from an address column: NaN, or a string
NaN == [isna |-> TRUE, chars |-> <<>>]
Str(s) == [isna |-> FALSE, chars |-> s]

RECURSIVE lstrip(_)
RECURSIVE rstrip(_)
\* str.strip()
lstrip(s) == IF s /= <<>> /\ IsSpace(Head(s)) THEN lstrip(Tail(s)) ELSE s
rstrip(s) ==
  IF s /= <<>> /\ IsSpace(s[Len(s)]) THEN rstrip(SubSeq(s, 1, Len(s) - 1)) ELSE s
strip(s) == rstrip(lstrip(s))

\* s has p at index i
HasAt(s, p, i) ==
  /\ s[i] = p[1]
  /\ i + Len(p) - 1 <= Len(s)
  /\ SubSeq(s, i, i + Len(p) - 1) = p

RECURSIVE replace_from(_, _, _, _)
\* str.replace(old, new) from index p on: every occurrence, left to right,
\* none overlapping
replace_from(s, p, old, new) ==
  IF p > Len(s) THEN <<>>
  ELSE IF HasAt(s, old, p)
    THEN new \o replace_from(s, p + Len(old), old, new)
    ELSE <<s[p]>> \o replace_from(s, p + 1, old, new)
replace(s, old, new) ==
  IF \E i \in 1..Len(s) : HasAt(s, old, i) THEN replace_from(s, 1, old, new)
  ELSE s

RECURSIVE ReplaceEach(_, _, _)
\* `for wrong, right in ...: addr = addr.replace(wrong, right)`, from the
\* n-th pair on (nothing is left to replace in an empty string)
ReplaceEach(s, pairs, n) ==
  IF n > Len(pairs) \/ s = <<>> THEN s
  ELSE ReplaceEach(replace(s, pairs[n][1], pairs[n][2]), pairs, n + 1)

RECURSIVE FirstIn(_, _, _)
\* the first index from p on whose character is in S, 0 when there is none
FirstIn(s, p, S) ==
  IF p > Len(s) THEN 0 ELSE IF s[p] \in S THEN p ELSE FirstIn(s, p + 1, S)

RECURSIVE Unbracket(_, _, _)
\* re.sub(r'\([^)]*\)', '', addr): an opening bracket up to the next closing
\* one is removed; an opening bracket that is never closed stays
Unbracket(s, open, close) ==
  IF s = <<>> THEN <<>>
  ELSE IF Head(s) = open /\ FirstIn(s, 2, {close}) /= 0
    THEN Unbracket(SubSeq(s, FirstIn(s, 2, {close}) + 1, Len(s)), open, close)
    ELSE <<Head(s)>> \o Unbracket(Tail(s), open, close)

\* noise_keywords, in the order of the list
noise_keywords ==
  << <<"wan", "sok", "chung", "jeon", "gi">>,
     <<"geup", "sok", "chung", "jeon", "gi">>,
     <<"chung", "jeon", "gi">>, <<"chung", "jeon", "so">>,
     <<"ju", "cha", "jang">>, <<"ji", "ha", "ju", "cha", "jang">>,
     <<"ok", "oe", "ju", "cha", "jang">>,
     <<"ip", "gu">>, <<"ap">>, <<"yeop">>, <<"dwi">>, <<"dwi", "pyeon">>,
     <<"maj", "eun", "pyeon">>, <<"geon", "neo", "pyeon">>,
     <<"u", "cheuk">>, <<"jwa", "cheuk">>, <<"bang", "myeon">>,
     <<"bang", "hyang">>, <<"in", "geun">>, <<"geun", "cheo">>,
     <<"1", "cheung">>, <<"2", "cheung">>, <<"ji", "ha">>,
     <<"B", "1">>, <<"B", "2">>, <<"cheung">> >>

\* `addr = addr.replace(keyword, ' ')`
noise == [n \in 1..Len(noise_keywords) |-> <<noise_keywords[n], <<" ">> >>]

\* the four region names that are standardised
regions ==
  << << <<"gang", "won", "teuk", "byeol", "ja", "chi", "do">>,
        <<"gang", "won", "do">> >>,
     << <<"jeon", "buk", "teuk", "byeol", "ja", "chi", "do">>,
        <<"jeon", "ra", "buk", "do">> >>,
     << <<"jeon", "nam", "teuk", "byeol", "ja", "chi", "do">>,
        <<"jeon", "ra", "nam", "do">> >>,
     << <<"je", "ju", "teuk", "byeol", "ja", "chi", "do">>,
        <<"je", "ju", "do">> >> >>

\* corrections without the pair for "won rong myeon"
correctionsMut ==
  << << <<"hong", "deok", "gu">>, <<"heung", "deok", "gu">> >> >>
\* corrections, in the order of the dictionary
corrections ==
  << << <<"hong", "deok", "gu">>, <<"heung", "deok", "gu">> >>,
     << <<"won", "rong", "myeon">>, <<"wol", "rong", "myeon">> >>,
     << <<"won", "sak", "ro">>, <<"won", "dang", "ro">> >>,
     << <<"song", "baek", "ro", "ro">>, <<"song", "baek", "ro">> >>,
     << <<"dal", "seong", "gun", " ", "hyeon", "pung", "myeon">>,
        <<"dal", "seong", "gun", " ", "hyeon", "pung", "eup">> >>,
     << <<"ye", "cheon", "gun", " ", "ho", "myeong", "myeon">>,
        <<"ye", "cheon", "gun", " ", "ho", "myeong", "eup">> >>,
     << <<"hyeon", "pung", "dong", "ro">>,
        <<"hyeon", "pung", "jung", "ang", "ro">> >>,
     << <<"hyeon", "pung", "seo", "ro">>,
        <<"hyeon", "pung", "jung", "ang", "ro">> >>,
     << <<"do", "cheong", "dae", "ro">>, <<"chung", "hyo", "ro">> >>,
     << <<"haeng", "bok", "ro">>, <<"chung", "hyo", "ro">> >>,
     << <<"cheong", "seok", "ro">>, <<"gyeong", "chung", "dae", "ro">> >>,
     << <<"su", "ta", "sa", "ro">>, <<"su", "ta", "sa", "gil">> >>,
     << <<"deok", "pung", "ro">>, <<"sam", "cheok", "ro">> >> >>

RECURSIVE SpaceDigits(_)
\* re.sub(r'([가-힣])(\d)', r'\1 \2', addr)
SpaceDigits(s) ==
  IF Len(s) < 2 THEN s
  ELSE IF IsHangul(s[1]) /\ IsDigit(s[2])
    THEN <<s[1], " ", s[2]>> \o SpaceDigits(SubSeq(s, 3, Len(s)))
    ELSE <<Head(s)>> \o SpaceDigits(Tail(s))

RECURSIVE Collapse(_)
\* re.sub(r'\s+', ' ', addr)
Collapse(s) ==
  IF s = <<>> THEN <<>>
  ELSE IF IsSpace(Head(s)) THEN <<" ">> \o Collapse(lstrip(s))
  ELSE <<Head(s)>> \o Collapse(Tail(s))

\* clean_address, steps 1 to 6
clean_address(address) ==
  IF address.isna \/ strip(address.chars) = <<>> THEN <<>>
  ELSE
    LET a0 == strip(address.chars)
        a1 == Unbracket(Unbracket(a0, "(", ")"), "[", "]")
        a2 == ReplaceEach(a1, noise, 1)
        a3 == ReplaceEach(a2, regions, 1)
        a4 == ReplaceEach(a3, corrections, 1)
        a5 == SpaceDigits(a4)
    IN strip(Collapse(a5))

RECURSIVE SpacesTo(_, _)
RECURSIVE DigitsTo(_, _)
\* the index after the run of whitespace (of digits) that starts at p
SpacesTo(s, p) == IF p <= Len(s) /\ IsSpace(s[p]) THEN SpacesTo(s, p + 1) ELSE p
DigitsTo(s, p) == IF p <= Len(s) /\ IsDigit(s[p]) THEN DigitsTo(s, p + 1) ELSE p

\* \s+\d+(-\d+)?(\s|$) matched at p: the index after the match, 0 when there
\* is no match.  Both runs are taken whole: a shorter one leaves a
\* whitespace or a digit where the pattern wants a digit, "-", \s or the end.
NumberAt(s, p) ==
  LET q == SpacesTo(s, p)
      r == DigitsTo(s, q)
      e == IF r <= Len(s) /\ s[r] = "-" /\ DigitsTo(s, r + 1) > r + 1
             THEN DigitsTo(s, r + 1) ELSE r
  IN IF q > p /\ r > q /\ e > Len(s) THEN e
     ELSE IF q > p /\ r > q /\ IsSpace(s[e]) THEN e + 1
     ELSE 0

RECURSIVE SubNumber(_, _)
\* re.sub(r'\s+\d+(-\d+)?(\s|$)', ' ', address) from index p on
SubNumber(s, p) ==
  IF p > Len(s) THEN <<>>
  ELSE IF NumberAt(s, p) /= 0 THEN <<" ">> \o SubNumber(s, NumberAt(s, p))
  ELSE <<s[p]>> \o SubNumber(s, p + 1)

RECURSIVE GiveBack(_, _, _, _)
\* a greedy run of whitespace up to hi (exclusive), then `.+?` and a
\* character of S: the run gives characters back down to lo until the rest
\* matches.  The index of the character of S, 0 when nothing matches.
GiveBack(s, hi, lo, S) ==
  IF hi < lo THEN 0
  ELSE IF FirstIn(s, hi + 1, S) /= 0 THEN FirstIn(s, hi + 1, S)
  ELSE GiveBack(s, hi - 1, lo, S)

RECURSIVE RoadTail(_, _)
\* .+?[읍면동]?\s*.+?[로길대로가] with the first `.+?` ending before pos: the
\* optional character is tried present, then absent, then `.+?` grows
RoadTail(s, pos) ==
  IF pos > Len(s) THEN 0
  ELSE
    LET present == IF s[pos] \in EupMyeonDong
                  THEN GiveBack(s, SpacesTo(s, pos + 1), pos + 1, RoGilDaeGa)
                  ELSE 0
        absent == GiveBack(s, SpacesTo(s, pos), pos, RoGilDaeGa)
    IN IF present /= 0 THEN present
       ELSE IF absent /= 0 THEN absent
       ELSE RoadTail(s, pos + 1)

RECURSIVE RoadSpaces(_, _, _)
\* \s+ of the road pattern: greedy up to hi (exclusive), one at least
RoadSpaces(s, hi, lo) ==
  IF hi < lo THEN 0
  ELSE IF RoadTail(s, hi + 1) /= 0 THEN RoadTail(s, hi + 1)
  ELSE RoadSpaces(s, hi - 1, lo)

RECURSIVE road_from(_, _)
\* re.match(r'(.+?[시도군구]\s+.+?[읍면동]?\s*.+?[로길대로가])\s*', address)
\* with the first `.+?` ending before i: the end of group 1, 0 for no match
road_from(s, i) ==
  IF i > Len(s) THEN 0
  ELSE
    LET m == IF s[i] \in SiDoGunGu
               THEN RoadSpaces(s, SpacesTo(s, i + 1), i + 2) ELSE 0
    IN IF m /= 0 THEN m ELSE road_from(s, i + 1)
road_match(s) == road_from(s, 2)

RECURSIVE dong_from(_, _)
\* re.match(r'(.+?[시도군구]\s+.+?[읍면동리])', address)
dong_from(s, i) ==
  IF i > Len(s) THEN 0
  ELSE
    LET m == IF s[i] \in SiDoGunGu
               THEN GiveBack(s, SpacesTo(s, i + 1), i + 2, EupMyeonDongRi)
               ELSE 0
    IN IF m /= 0 THEN m ELSE dong_from(s, i + 1)
dong_match(s) == dong_from(s, 2)

\* re.match(r'(.+?[시군구])', address)
sigungu_match(s) == FirstIn(s, 2, SiGunGu)

\* the list holds no string twice
NoRepeat(list) == \A m, n \in 1..Len(list) : list[m] = list[n] => m = n

\* s occurs in the list
In(s, list) == \E n \in 1..Len(list) : list[n] = s

\* a derived candidate is appended even when the list holds it already
KeepMut(c, list, min) == IF Len(c) > min THEN Append(list, c) ELSE list
\* `if x not in candidates and len(x) > min: candidates.append(x)`
Keep(c, list, min) ==
  IF ~In(c, list) /\ Len(c) > min THEN Append(list, c) ELSE list

\* m.group(1).strip() kept, when the pattern matched
Level(s, end, list, min) ==
  IF end = 0 THEN list ELSE Keep(strip(SubSeq(s, 1, end)), list, min)

\* extract_address_candidates of runner v: the base runner has a fifth level
extract_address_candidates(v, address) ==
  LET c1 == <<address>>
      no_number == strip(SubNumber(address, 1))
      c2 == IF no_number /= address /\ Len(no_number) > 5
              THEN Append(c1, no_number) ELSE c1
      c3 == Level(address, road_match(address), c2, 5)
      c4 == Level(address, dong_match(address), c3, 5)
  IN IF v = "base" THEN Level(address, sigungu_match(address), c4, 3) ELSE c4

VARIABLES
  input,        \* input/charger_v2.csv: the records, in order
  now,          \* the calendar day
  runs,         \* runner invocations so far
  tools,        \* tool invocations so far
  live,         \* output/progress.csv
  backup,       \* output/progress.csv.backup
  tmp,          \* output/progress.csv.tmp
  daily,        \* output/daily_<day>.csv, per day
  archives,     \* timestamped copies the tools leave behind
  pc,           \* position of the running script, "idle" when none runs
  variant,      \* which runner is running
  today_str,    \* the runner's today_str
  df,           \* the in-memory DataFrame
  todo,         \* the labels the for loop iterates over
  k,            \* position of the loop in todo
  today_count,  \* geocoder.today_count
  limit,        \* DAILY_LIMIT (base, daily) or remaining_limit (smart)
  att,          \* position in Attempts of the row being geocoded
  res,          \* (lat, lon, status) returned by geocode_address
  ret,          \* where the running save returns to
  loaded,       \* history: df as loaded or initialised at the run's start
  reqRows,      \* history: rows for which this run issued a request
  intr,         \* history: a KeyboardInterrupt was raised in the row loop
  dirty,        \* history: this run assigned to a row of df
  saveTried,    \* history: a save was started after the loop was left
  endedBy,      \* history: how the loop was left
  op,           \* history: the last step taken
  final,        \* output/geocoded_final_complete.csv
  failedOut,    \* output/geocoded_failed.csv
  tried,        \* history: the candidates requested for the current row
  readErr,      \* history: read_csv of the progress file raised at the start
  saveFailed,   \* history: a step of a snapshot save raised in this run
  delay,        \* history: the last time.sleep since the last request of the run
  address,      \* the value clean_address is given
  cleaned,      \* what the last call of clean_address returned
  calls,        \* history: calls of clean_address so far
  geocoder,     \* the runner whose extract_address_candidates was called
  candidates    \* what extract_address_candidates returned

text == <<address, cleaned, calls, geocoder, candidates>>
batch == <<input, now, runs, tools, live, backup, tmp, daily, archives, pc, variant,
           today_str, df, todo, k, today_count, limit, att, res, ret, loaded,
           reqRows, intr, dirty, saveTried, endedBy, op, final, failedOut,
           tried, readErr, saveFailed, delay>>
vars == <<batch, text>>

files == <<live, backup, tmp, daily, archives>>
clock == <<input, now, runs, tools>>
FreshDf == Fresh(input)
local == <<variant, today_str, df, todo, k, today_count, limit, att, res, ret>>
hist == <<loaded, reqRows, intr, dirty, saveTried, endedBy>>
outs == <<final, failedOut>>
hist2 == <<tried, readErr, saveFailed>>

NoRes == Outcome("none")

\* nothing has run yet: no process, no file under output/ but possibly
\* progress.csv
\* delay: "start" before the first request of a run, "none" after a request,
\* "req" after time.sleep(0.08), "row" after time.sleep(0.12)
KeepDelay == delay' = IF pc' = "idle" THEN "start" ELSE delay

\* no string function has been called
BlankText ==
  /\ address = NaN /\ cleaned = <<>> /\ calls = 0
  /\ geocoder = "none" /\ candidates = <<>>

\* no runner and no tool has run
BlankRun ==
  /\ delay = "start"
  /\ now = 1 /\ runs = 0 /\ tools = 0
  /\ backup = NoFile /\ tmp = NoFile
  /\ archives = {}
  /\ pc = "idle" /\ variant = "none" /\ today_str = 0
  /\ df = <<>> /\ todo = <<>> /\ k = 0 /\ today_count = 0 /\ limit = 0
  /\ att = 0 /\ res = NoRes /\ ret = "none"
  /\ loaded = <<>> /\ reqRows = {} /\ intr = FALSE /\ dirty = FALSE
  /\ saveTried = FALSE /\ endedBy = "none"
  /\ op = "init"
  /\ final = NoFile /\ failedOut = NoFile
  /\ tried = <<>> /\ readErr = FALSE /\ saveFailed = FALSE

BlankRest == BlankText /\ BlankRun

BlankBut == daily = [d \in Days |-> NoFile] /\ BlankRest

Blank == live = NoFile /\ BlankBut

Init == input = InputMixed(NRows) /\ Blank

\* the process is gone: its memory with it
Exit(how) ==
  /\ pc' = "idle" /\ variant' = "none" /\ today_str' = 0
  /\ df' = <<>> /\ todo' = <<>> /\ k' = 0 /\ today_count' = 0 /\ limit' = 0
  /\ att' = 0 /\ res' = NoRes /\ ret' = "none"
  /\ op' = how

\* the date rolls over between two invocations
Tick ==
  /\ pc = "idle" /\ now < MaxDay
  /\ now' = now + 1
  /\ loaded' = <<>> /\ reqRows' = {} /\ intr' = FALSE /\ dirty' = FALSE
  /\ saveTried' = FALSE /\ endedBy' = "none"
  /\ tried' = <<>> /\ readErr' = FALSE /\ saveFailed' = FALSE
  /\ op' = "Tick"
  /\ UNCHANGED <<outs, input, runs, tools, files, pc, local>>
  /\ KeepDelay
  /\ UNCHANGED text

\* main() up to the try block: load or initialise, build the geocoder.
\*   ok      - read_csv of an existing progress file succeeds
\*   cfg     - smart only: MANUAL_DATE (USE_AUTO_DATE = False) or today
\*   proceed - smart only: the operator's answer at the near-limit prompt
BeginWith(v, ok, cfg, proceed, cap) ==
  /\ pc = "idle"
  /\ LET ld == load_progress(live, ok)
         d0 == IF ld.some THEN ld.rows ELSE FreshDf
         day == IF v = "smart" THEN cfg ELSE now
         used == check_today_usage(d0, day)
         stop == /\ v = "smart"
                 /\ \/ used >= NearLimit /\ ~proceed
                    \/ WithStatus(d0, "pending") = {}
     IN /\ runs' = runs + 1
        /\ loaded' = d0 /\ reqRows' = {} /\ intr' = FALSE /\ dirty' = FALSE
        /\ saveTried' = FALSE
        /\ tried' = <<>> /\ saveFailed' = FALSE
        /\ readErr' = (live.exists /\ ~(Readable(live) /\ ok))
        /\ IF stop
             THEN /\ Exit("StartRun") /\ endedBy' = "declined"
             ELSE /\ pc' = "loop" /\ variant' = v /\ today_str' = day
                  /\ df' = d0 /\ todo' = TodoOf(v, d0) /\ k' = 1
                  /\ today_count' = 0
                  /\ limit' = IF v = "smart" THEN cap - used
                              ELSE cap
                  /\ att' = 0 /\ res' = NoRes /\ ret' = "none"
                  /\ endedBy' = "none"
                  /\ op' = "StartRun"
  /\ UNCHANGED <<outs, input, now, tools, files>>
  /\ KeepDelay
  /\ UNCHANGED text

\* a run with DAILY_LIMIT as the scripts set it
Begin(v, ok, cfg, proceed) == BeginWith(v, ok, cfg, proceed, DailyLimit)

StartRun(v, ok, cfg, proceed) == runs < MaxRuns /\ Begin(v, ok, cfg, proceed)

Row == todo[k]
\* the script is inside main's try block (not in one of its handlers)
InTry == pc \notin {"idle", "finish"} /\ ret \notin {"int", "err"}

\* a call of save_progress_safe (base: save_progress) that returns to r
EnterSave(r) ==
  /\ pc' = IF variant = "base" THEN "s_live" ELSE "s_tmp"
  /\ ret' = r
  /\ saveTried' = (saveTried \/ r /= "loop")

\* the for loop is exhausted
LoopEnd ==
  /\ pc = "loop" /\ k > Len(todo)
  /\ EnterSave("final")
  /\ endedBy' = "all_done"
  /\ op' = "LoopEnd"
  /\ UNCHANGED <<outs, hist2, clock, files, variant, today_str, df, todo, k, today_count,
                 limit, att, res, loaded, reqRows, intr, dirty>>
  /\ KeepDelay
  /\ UNCHANGED text

\* a `continue` that stays on the row
SkipMut ==
  /\ pc = "loop" /\ k <= Len(todo)
  /\ SkipRow(variant, df[Row])
  /\ k' = k
  /\ op' = "Skip"
  /\ UNCHANGED <<outs, hist2, clock, files, pc, variant, today_str, df, todo, today_count,
                 limit, att, res, ret, hist>>
  /\ KeepDelay
  /\ UNCHANGED text
\* `continue` on a row that is already success
Skip ==
  /\ pc = "loop" /\ k <= Len(todo)
  /\ SkipRow(variant, df[Row])
  /\ k' = k + 1
  /\ op' = "Skip"
  /\ UNCHANGED <<outs, hist2, clock, files, pc, variant, today_str, df, todo, today_count,
                 limit, att, res, ret, hist>>
  /\ KeepDelay
  /\ UNCHANGED text

\* `break` on the daily limit; the base runner saves before it breaks
QuotaBreak ==
  /\ pc = "loop" /\ k <= Len(todo)
  /\ ~SkipRow(variant, df[Row])
  /\ QuotaReached(today_count, limit)
  /\ EnterSave(IF variant = "base" THEN "break" ELSE "final")
  /\ endedBy' = "quota"
  /\ op' = "QuotaBreak"
  /\ UNCHANGED <<outs, hist2, clock, files, variant, today_str, df, todo, k, today_count,
                 limit, att, res, loaded, reqRows, intr, dirty>>
  /\ KeepDelay
  /\ UNCHANGED text

\* geocode_address up to its first request
Call ==
  /\ pc = "loop" /\ k <= Len(todo)
  /\ ~SkipRow(variant, df[Row])
  /\ ~QuotaReached(today_count, limit)
  /\ IF LimitReached(today_count, limit)
       THEN res' = Outcome("limit_reached") /\ pc' = "w_lat" /\ att' = 0
       ELSE IF Attempts(df[Row].addr) = <<>>
         THEN res' = Outcome("empty") /\ pc' = "w_lat" /\ att' = 0
         ELSE res' = NoRes /\ pc' = "req" /\ att' = 1
  /\ tried' = <<>>
  /\ op' = "Call"
  /\ UNCHANGED <<outs, readErr, saveFailed, clock, files, variant, today_str, df,
                 todo, k, today_count, limit, ret, hist>>
  /\ KeepDelay
  /\ UNCHANGED text

\* what requests.get does: a 200/OK response carrying a point, any other
\* response (other status code, status not OK, no point), or an exception
\* (timeout, transport error)
Outcomes == {"point", "nopoint", "raised"}

\* `self.today_count += 1` follows requests.get inside the try: an exception
\* raised by requests.get skips it
Counted(outcome) == outcome /= "raised"

\* _try_geocode: one request and what comes of it
Respond(outcome) ==
  /\ pc = "req"
  /\ today_count' = IF Counted(outcome) THEN today_count + 1 ELSE today_count
  /\ reqRows' = reqRows \cup {Row}
  /\ tried' = Append(tried, [type |-> Attempts(df[Row].addr)[att].type,
                              cand |-> Attempts(df[Row].addr)[att].cand,
                              out |-> outcome])
  /\ IF outcome = "point"
       THEN res' = ParsePoint(Answer(df[Row].addr, att)) /\ pc' = "w_lat"
       ELSE res' = res /\ pc' = "sleep"
  /\ op' = "Respond"
  /\ UNCHANGED <<outs, readErr, saveFailed, clock, files, variant, today_str, df,
                 todo, k, limit, att, ret, loaded, intr, dirty, saveTried,
                 endedBy>>
  /\ delay' = "none"
  /\ UNCHANGED text

\* SwallowsInterrupt: _try_geocode's handler is a bare `except:` (daily,
\* smart), which also catches KeyboardInterrupt; the base runner's handlers
\* name Exception classes and let it through
SwallowsInterrupt(v) == v /= "base"

\* Ctrl-C while requests.get is waiting: raised before today_count += 1
InterruptRequest ==
  /\ pc = "req"
  /\ intr' = TRUE
  /\ reqRows' = reqRows \cup {Row}
  /\ IF SwallowsInterrupt(variant)
       THEN /\ pc' = "sleep"
            /\ UNCHANGED <<ret, saveTried, endedBy>>
       ELSE /\ EnterSave("int")
            /\ endedBy' = "interrupt"
  /\ tried' = Append(tried, [type |-> Attempts(df[Row].addr)[att].type,
                              cand |-> Attempts(df[Row].addr)[att].cand,
                              out |-> "interrupt"])
  /\ op' = "InterruptRequest"
  /\ UNCHANGED <<outs, readErr, saveFailed, clock, files, variant, today_str, df, todo, k, today_count,
                 limit, att, res, loaded, dirty>>
  /\ delay' = "none"
  /\ UNCHANGED text

\* a ladder that gives the row up after its first failed attempt
SleepMut ==
  /\ pc = "sleep"
  /\ att' = 0 /\ pc' = "w_lat" /\ res' = Outcome("failed")
  /\ op' = "Sleep"
  /\ UNCHANGED <<outs, hist2, clock, files, variant, today_str, df, todo, k, today_count,
                 limit, ret, hist>>
  /\ delay' = "req"
  /\ UNCHANGED text
\* geocode_address after a failed attempt: time.sleep(0.08), then the next
\* candidate, or (None, None, 'failed') when there is none left
Sleep ==
  /\ pc = "sleep"
  /\ IF att < Len(Attempts(df[Row].addr))
       THEN att' = att + 1 /\ pc' = "req" /\ res' = res
       ELSE att' = 0 /\ pc' = "w_lat" /\ res' = Outcome("failed")
  /\ op' = "Sleep"
  /\ UNCHANGED <<outs, hist2, clock, files, variant, today_str, df, todo, k, today_count,
                 limit, ret, hist>>
  /\ delay' = "req"
  /\ UNCHANGED text

\* the four assignments df.at[idx, ...] = ..., one statement each
SetLat ==
  /\ pc = "w_lat"
  /\ df' = [df EXCEPT ![Row].lat = res.lat]
  /\ dirty' = TRUE
  /\ tried' = <<>>
  /\ pc' = "w_lon"
  /\ op' = "SetLat"
  /\ UNCHANGED <<outs, readErr, saveFailed, clock, files, variant, today_str, todo, k, today_count,
                 limit, att, res, ret, loaded, reqRows, intr, saveTried,
                 endedBy>>
  /\ KeepDelay
  /\ UNCHANGED text

SetLon ==
  /\ pc = "w_lon"
  /\ df' = [df EXCEPT ![Row].lon = res.lon]
  /\ pc' = "w_st"
  /\ op' = "SetLon"
  /\ UNCHANGED <<outs, hist2, clock, files, variant, today_str, todo, k, today_count,
                 limit, att, res, ret, hist>>
  /\ KeepDelay
  /\ UNCHANGED text

SetStatus ==
  /\ pc = "w_st"
  /\ df' = [df EXCEPT ![Row].status = res.status]
  /\ pc' = "w_ts"
  /\ op' = "SetStatus"
  /\ UNCHANGED <<outs, hist2, clock, files, variant, today_str, todo, k, today_count,
                 limit, att, res, ret, hist>>
  /\ KeepDelay
  /\ UNCHANGED text

SetTime ==
  /\ pc = "w_ts"
  /\ df' = [df EXCEPT ![Row].ts = <<now, runs>>]
  /\ pc' = "ckpt"
  /\ res' = NoRes
  /\ op' = "SetTime"
  /\ UNCHANGED <<outs, hist2, clock, files, variant, today_str, todo, k, today_count,
                 limit, att, ret, hist>>
  /\ KeepDelay
  /\ UNCHANGED text

\* `if geocoder.today_count % 1000 == 0: save_progress_safe(...)`
CheckpointDue(cnt) == cnt % Cadence = 0

Checkpoint ==
  /\ pc = "ckpt"
  /\ IF CheckpointDue(today_count)
       THEN EnterSave("loop")
       ELSE pc' = "rowsleep" /\ UNCHANGED <<ret, saveTried>>
  /\ op' = "Checkpoint"
  /\ UNCHANGED <<outs, hist2, clock, files, variant, today_str, df, todo, k, today_count,
                 limit, att, res, loaded, reqRows, intr, dirty, endedBy>>
  /\ KeepDelay
  /\ UNCHANGED text

\* a loop body without its time.sleep(0.12)
RowSleepMut ==
  /\ pc = "rowsleep"
  /\ k' = k + 1
  /\ pc' = "loop"
  /\ op' = "RowSleep"
  /\ UNCHANGED <<outs, hist2, clock, files, variant, today_str, df, todo, today_count,
                 limit, att, res, ret, hist>>
  /\ delay' = delay
  /\ UNCHANGED text
\* time.sleep(0.12), then the next row
RowSleep ==
  /\ pc = "rowsleep"
  /\ k' = k + 1
  /\ pc' = "loop"
  /\ op' = "RowSleep"
  /\ UNCHANGED <<outs, hist2, clock, files, variant, today_str, df, todo, today_count,
                 limit, att, res, ret, hist>>
  /\ delay' = "row"
  /\ UNCHANGED text

\* ------------------------------------------------------------ saving
\* save_daily_backup (daily): today's rows, written over the day's file with
\* index=False, i.e. without their labels
save_daily_backup(old, d, day) ==
  LET idx == Ascending(Today(d, day))
  IN IF idx = <<>> THEN old
     ELSE WriteCsv([n \in 1..Len(idx) |-> d[idx[n]]])

RECURSIVE Combine(_, _, _, _)
\* save_daily_backup_safe's merge loop: label idx (idx-1 in pandas) replaces
\* the row at that position of the existing file when idx-1 < len(combined),
\* and is appended otherwise
Combine(comb, idx, n, d) ==
  IF n > Len(idx) THEN comb
  ELSE LET i == idx[n]
       IN Combine(IF i - 1 < Len(comb) THEN [comb EXCEPT ![i] = d[i]]
                  ELSE Append(comb, d[i]),
                  idx, n + 1, d)

\* save_daily_backup_safe (smart); a file that cannot be read raises inside
\* the function's try and is left as it is
save_daily_backup_safe(old, d, day) ==
  LET idx == Ascending(Today(d, day))
  IN IF idx = <<>> THEN old
     ELSE IF old.exists
       THEN IF Readable(old) THEN WriteCsv(Combine(old.rows, idx, 1, d))
            ELSE old
       ELSE WriteCsv([n \in 1..Len(idx) |-> d[idx[n]]])

\* what follows a completed save, by the place it was called from
AfterSave ==
  CASE ret = "loop" ->
         /\ pc' = "rowsleep" /\ ret' = "none"
         /\ UNCHANGED <<variant, today_str, df, todo, k, today_count, limit,
                        att, res, saveTried>>
         /\ op' = "Saved"
    [] ret = "break" ->
         /\ EnterSave("final")
         /\ UNCHANGED <<variant, today_str, df, todo, k, today_count, limit,
                        att, res>>
         /\ op' = "Saved"
    [] OTHER ->
         IF variant /= "base" /\ today_count > 0
           THEN /\ pc' = "daily_bk"
                /\ UNCHANGED <<variant, today_str, df, todo, k, today_count,
                               limit, att, res, ret, saveTried>>
                /\ op' = "Saved"
           ELSE IF ret = "final"
             THEN /\ pc' = "finish"
                  /\ UNCHANGED <<variant, today_str, df, todo, k, today_count,
                                 limit, att, res, ret, saveTried>>
                  /\ op' = "Saved"
             ELSE Exit("Saved") /\ UNCHANGED saveTried

\* save_progress_safe, step 1: df.to_csv(temp_file)
WriteTmp ==
  /\ pc = "s_tmp"
  /\ tmp' = WriteCsv(df)
  /\ pc' = "s_bak"
  /\ op' = "WriteTmp"
  /\ UNCHANGED <<outs, hist2, clock, live, backup, daily, archives, variant, today_str, df,
                 todo, k, today_count, limit, att, res, ret, hist>>
  /\ KeepDelay
  /\ UNCHANGED text

\* step 2: if progress_file.exists(): shutil.copy2(progress_file, backup)
CopyBackup ==
  /\ pc = "s_bak"
  /\ backup' = IF live.exists THEN live ELSE backup
  /\ pc' = "s_mv"
  /\ op' = "CopyBackup"
  /\ UNCHANGED <<outs, hist2, clock, live, tmp, daily, archives, variant, today_str, df,
                 todo, k, today_count, limit, att, res, ret, hist>>
  /\ KeepDelay
  /\ UNCHANGED text

\* step 3: shutil.move(temp_file, progress_file), a rename
MoveTmp ==
  /\ pc = "s_mv"
  /\ live' = tmp /\ tmp' = NoFile
  /\ AfterSave
  /\ UNCHANGED <<outs, hist2, clock, backup, daily, archives, loaded, reqRows, intr, dirty,
                 endedBy>>
  /\ KeepDelay
  /\ UNCHANGED text

\* save_progress (base): df.to_csv(progress_file), in place
WriteLive ==
  /\ pc = "s_live"
  /\ live' = WriteCsv(df)
  /\ AfterSave
  /\ UNCHANGED <<outs, hist2, clock, backup, tmp, daily, archives, loaded, reqRows, intr,
                 dirty, endedBy>>
  /\ KeepDelay
  /\ UNCHANGED text

\* `if geocoder.today_count > 0: save_daily_backup(...)`, in the try block
\* and in both handlers
DailyBackup ==
  /\ pc = "daily_bk"
  /\ daily' = [daily EXCEPT ![today_str] =
                 IF variant = "smart"
                   THEN save_daily_backup_safe(@, df, today_str)
                   ELSE save_daily_backup(@, df, today_str)]
  /\ IF ret = "final"
       THEN /\ pc' = "finish" /\ op' = "DailyBackup"
            /\ UNCHANGED <<variant, today_str, df, todo, k, today_count,
                           limit, att, res, ret>>
       ELSE Exit("DailyBackup")
  /\ UNCHANGED <<outs, hist2, clock, live, backup, tmp, archives, hist>>
  /\ KeepDelay
  /\ UNCHANGED text

\* the rows of d at the labels in S, in order, as to_csv(index=False) of a
\* filtered frame writes them
Rows(d, S) == LET idx == Ascending(S) IN [n \in 1..Len(idx) |-> d[idx[n]]]

\* Dates as text.  The model's days are days of one month;
\* strftime('%Y-%m-%d') and strftime('%Y%m%d') of day d:
DigitOf(n) == <<"0", "1", "2", "3", "4", "5", "6", "7", "8", "9">>[n + 1]
strftime_dashed(d) ==
  <<"2", "0", "2", "5", "-", "1", "0", "-", DigitOf(d \div 10), DigitOf(d % 10)>>
strftime_compact(d) ==
  <<"2", "0", "2", "5", "1", "0", DigitOf(d \div 10), DigitOf(d % 10)>>
\* the text in the resolved_at column: strftime('%Y-%m-%d %H:%M:%S'), the
\* time of day standing for the run
Stamp(t) == strftime_dashed(t[1]) \o <<" ", DigitOf(t[2] % 10)>>
\* str.startswith and the slice s[:10]
startswith(s, p) == Len(p) <= Len(s) /\ SubSeq(s, 1, Len(p)) = p
Slice10(s) == SubSeq(s, 1, IF Len(s) < 10 THEN Len(s) ELSE 10)

\* get_batch_number: one above the highest number among batch_*.csv, or 1
get_batch_number(arch) ==
  LET nums == {a.num : a \in {b \in arch : b.kind = "batch"}}
  IN IF nums = {} THEN 1
     ELSE (CHOOSE n \in nums : \A m \in nums : m <= n) + 1

\* the base runner's rows of today: resolved_at is not NaN and starts with
\* today_str[:10], today_str being strftime('%Y%m%d')
today_processed(d, today) ==
  {i \in 1..Len(d) :
     d[i].ts /= NoTs /\ startswith(Stamp(d[i].ts), Slice10(today))}

\* the batch export that follows the try block of the base runner
BatchExport(arch, d, cnt, day) ==
  LET S == today_processed(d, strftime_compact(day))
  IN IF cnt > 0 /\ S /= {}
       THEN arch \cup {[kind |-> "batch", num |-> get_batch_number(arch),
                         day |-> day, file |-> WriteCsv(Rows(d, S))]}
       ELSE arch

\* the base and daily runners write geocoded_final_complete.csv (and
\* geocoded_failed.csv) when no row is pending; the smart runner only logs
WritesFinal(v) == v /= "smart"

\* the statistics after the try block and the final outputs, then the script
\* ends
Finish ==
  /\ pc = "finish"
  /\ IF WritesFinal(variant) /\ WithStatus(df, "pending") = {}
       THEN /\ final' = WriteCsv(df)
            /\ failedOut' = IF WithStatus(df, "failed") /= {}
                              THEN WriteCsv(Rows(df, WithStatus(df, "failed")))
                              ELSE failedOut
       ELSE UNCHANGED outs
  /\ archives' = IF variant = "base"
                   THEN BatchExport(archives, df, today_count, today_str)
                   ELSE archives
  /\ Exit("Finish")
  /\ UNCHANGED <<hist2, clock, live, backup, tmp, daily, hist>>
  /\ KeepDelay
  /\ UNCHANGED text

\* ------------------------------------------- interruption, errors, crashes
\* KeyboardInterrupt raised at a statement of the try block other than the
\* request: `except KeyboardInterrupt:` saves and returns
Interrupt ==
  /\ InTry /\ pc /= "req"
  /\ intr' = TRUE
  /\ EnterSave("int")
  /\ endedBy' = IF endedBy = "none" THEN "interrupt" ELSE endedBy
  /\ op' = "Interrupt"
  /\ UNCHANGED <<outs, hist2, clock, files, variant, today_str, df, todo, k, today_count,
                 limit, att, res, loaded, reqRows, dirty>>
  /\ KeepDelay
  /\ UNCHANGED text

\* HandlesError: only the daily runner has `except Exception:` around the
\* loop (save, daily backup, re-raise)
HandlesError(v) == v = "daily"

\* an exception other than KeyboardInterrupt raised by one of the
\* df.at[...] assignments of the loop body
LoopError ==
  /\ pc \in {"w_lat", "w_ts"}
  /\ endedBy' = "error"
  /\ IF HandlesError(variant)
       THEN /\ EnterSave("err")
            /\ op' = "LoopError"
            /\ UNCHANGED <<variant, today_str, df, todo, k, today_count,
                           limit, att, res>>
       ELSE Exit("LoopError") /\ UNCHANGED saveTried
  /\ UNCHANGED <<outs, hist2, clock, files, loaded, reqRows, intr, dirty>>
  /\ KeepDelay
  /\ UNCHANGED text

\* what a file holds when the process dies while writing rows d into it:
\* any strict prefix
Cut(d) == {Truncated(d, n) : n \in 0..(Len(d) - 1)}

\* the process is killed (power loss, kill -9, second Ctrl-C in a handler);
\* a write in progress leaves its target cut short, a rename does not
Crash ==
  /\ pc /= "idle"
  /\ \/ UNCHANGED files
     \/ pc = "s_tmp" /\ tmp' \in Cut(df)
        /\ UNCHANGED <<live, backup, daily, archives>>
     \/ pc = "s_bak" /\ live.exists /\ backup' \in Cut(live.rows)
        /\ UNCHANGED <<live, tmp, daily, archives>>
     \/ pc = "s_live" /\ live' \in Cut(df)
        /\ UNCHANGED <<backup, tmp, daily, archives>>
  /\ Exit("Crash")
  /\ UNCHANGED <<outs, hist2, clock, hist>>
  /\ KeepDelay
  /\ UNCHANGED text

\* every write swallows its own failure
AbsorbedMut(p) == TRUE
\* Absorbed: which writes swallow their own failure.  save_daily_backup and
\* save_daily_backup_safe catch Exception and only log; save_progress_safe
\* logs and re-raises, save_progress has no handler at all
Absorbed(p) == p = "daily_bk"

\* a write raises (disk full, permission denied): a step of the snapshot save
\* or the daily backup.  A to_csv that fails may leave its target cut short.
WriteFail ==
  /\ pc \in {"s_tmp", "s_bak", "s_mv", "s_live", "daily_bk"}
  /\ pc = "s_bak" => live.exists
  /\ tmp' \in (IF pc = "s_tmp" THEN Cut(df) ELSE {}) \cup {tmp}
  /\ live' \in (IF pc = "s_live" THEN Cut(df) ELSE {}) \cup {live}
  /\ saveFailed' = (saveFailed \/ pc /= "daily_bk")
  /\ IF Absorbed(pc)
       THEN /\ endedBy' = endedBy
            /\ IF pc /= "daily_bk"
                 THEN AfterSave
                 ELSE IF ret = "final"
                   THEN /\ pc' = "finish" /\ op' = "WriteFail"
                        /\ UNCHANGED <<variant, today_str, df, todo, k,
                                       today_count, limit, att, res, ret,
                                       saveTried>>
                   ELSE Exit("WriteFail") /\ UNCHANGED saveTried
       ELSE /\ endedBy' = "error"
            /\ IF InTry /\ HandlesError(variant)
                 THEN /\ EnterSave("err") /\ op' = "WriteFail"
                      /\ UNCHANGED <<variant, today_str, df, todo, k,
                                     today_count, limit, att, res>>
                 ELSE Exit("WriteFail") /\ UNCHANGED saveTried
  /\ UNCHANGED <<outs, clock, backup, daily, archives, loaded, reqRows, intr,
                 dirty, tried, readErr>>
  /\ KeepDelay
  /\ UNCHANGED text

\* ------------------------------------------------------ recovery tools
\* a merge loop that adds the rows found beyond the end of the target
MergeOneMut(m, f) ==
  [p \in 1..(IF Len(f) > Len(m) THEN Len(f) ELSE Len(m)) |->
     IF p > Len(m) THEN f[p]
     ELSE IF p <= Len(f) /\ HasCoord(f[p]) /\ m[p].lat = NoVal
       THEN [m[p] EXCEPT !.lat = f[p].lat, !.lon = f[p].lon,
                         !.status = "success", !.ts = f[p].ts]
       ELSE m[p]]
\* the merge loop of merge_daily_backups and of fix_and_recover option 3:
\* `for idx in <rows of the daily file with both coordinates>`, where idx is
\* the row's label in the daily file as read back, i.e. its position there;
\* a row of the target is filled only while its latitude is NaN
MergeOne(m, f) ==
  [p \in 1..Len(m) |->
     IF p <= Len(f) /\ HasCoord(f[p]) /\ m[p].lat = NoVal
       THEN [m[p] EXCEPT !.lat = f[p].lat, !.lon = f[p].lon,
                         !.status = "success", !.ts = f[p].ts]
       ELSE m[p]]

RECURSIVE MergeAll(_, _)
\* the daily files of the days in order, merged one after the other
MergeAll(m, order) ==
  IF order = <<>> THEN m
  ELSE MergeAll(MergeOne(m, daily[Head(order)].rows), Tail(order))

RECURSIVE SortDays(_, _)
\* sorted(file_info, key=date, reverse=not asc)
SortDays(S, asc) ==
  IF S = {} THEN <<>>
  ELSE LET d == IF asc THEN CHOOSE x \in S : \A y \in S : x <= y
                       ELSE CHOOSE x \in S : \A y \in S : x >= y
       IN <<d>> \o SortDays(S \ {d}, asc)

DailyDays == {d \in Days : daily[d].exists}

ClearHist ==
  /\ loaded' = <<>> /\ reqRows' = {} /\ intr' = FALSE /\ dirty' = FALSE
  /\ saveTried' = FALSE /\ endedBy' = "none"
  /\ tried' = <<>> /\ readErr' = FALSE /\ saveFailed' = FALSE

\* a tool that also replaces a progress file with as many success rows
ReplacesMut(success, current, yes) == success >= current /\ yes
\* `if success > current_success:` ... `if replace == 'y':`
Replaces(success, current, yes) == success > current /\ yes

\* merge_daily_backups.py.  sel/asc: option 1 (all files, newest first),
\* option 2 (all files, oldest first) or option 3 (chosen files, newest
\* first); yes: the operator's answer to the replace/create question
merge_daily_backups(sel, asc, yes) ==
  /\ pc = "idle" /\ tools < MaxTools
  /\ sel /= {} /\ sel \subseteq DailyDays
  /\ asc => sel = DailyDays
  /\ ~live.exists \/ Readable(live)
  /\ LET merged == MergeAll(FreshDf, SortDays(sel, asc))
         success == Cardinality(WithStatus(merged, "success"))
         current == Cardinality(WithStatus(live.rows, "success"))
     IN /\ success > 0
        /\ IF live.exists
             THEN IF Replaces(success, current, yes)
               THEN /\ archives' = archives \cup
                         {[kind |-> "merged", file |-> WriteCsv(merged)],
                          [kind |-> "progress_backup", file |-> live]}
                    /\ live' = WriteCsv(merged)
               ELSE /\ archives' = archives \cup
                         {[kind |-> "merged", file |-> WriteCsv(merged)]}
                    /\ live' = live
             ELSE /\ archives' = archives \cup
                       {[kind |-> "merged", file |-> WriteCsv(merged)]}
                  /\ live' = IF yes THEN WriteCsv(merged) ELSE live
  /\ tools' = tools + 1
  /\ ClearHist
  /\ op' = "merge_daily_backups"
  /\ UNCHANGED <<outs, input, now, runs, backup, tmp, daily, pc, local>>
  /\ KeepDelay
  /\ UNCHANGED text

\* a rebuild that takes over every row the damaged file holds, as it is
RebuildMut(prog) ==
  [p \in 1..Len(input) |-> IF p <= Len(prog) THEN prog[p] ELSE FreshDf[p]]
\* option 1 of fix_and_recover: the input's rows, with the coordinates the
\* damaged progress file holds at the same label
Rebuild(prog) ==
  [p \in 1..Len(input) |->
     IF p <= Len(prog) /\ HasCoord(prog[p])
       THEN [FreshDf[p] EXCEPT !.lat = prog[p].lat, !.lon = prog[p].lon,
                               !.status = "success", !.ts = prog[p].ts]
       ELSE FreshDf[p]]

\* fix_and_recover.py.  choice: the operator's option when the progress file
\* has fewer rows than the input; without such a file the script writes a
\* fresh progress.csv
fix_and_recover(choice) ==
  /\ pc = "idle" /\ tools < MaxTools
  /\ ~live.exists \/ Readable(live)
  /\ IF live.exists /\ Len(live.rows) < Len(input)
       THEN \/ /\ choice = 1
               /\ archives' = archives \cup
                    {[kind |-> "progress_broken", file |-> live]}
               /\ live' = WriteCsv(Rebuild(live.rows))
            \/ /\ choice = 2
               /\ archives' = archives \cup
                    {[kind |-> "progress_old", file |-> live]}
               /\ live' = WriteCsv(FreshDf)
            \/ /\ choice = 3
               /\ DailyDays /= {}
               /\ archives' = archives \cup
                    {[kind |-> "progress_old", file |-> live]}
               /\ live' = WriteCsv(MergeAll(FreshDf, SortDays(DailyDays, TRUE)))
       ELSE /\ choice = 0
            /\ live' = WriteCsv(FreshDf)
            /\ archives' = archives
  /\ tools' = tools + 1
  /\ ClearHist
  /\ op' = "fix_and_recover"
  /\ UNCHANGED <<outs, input, now, runs, backup, tmp, daily, pc, local>>
  /\ KeepDelay
  /\ UNCHANGED text

\* ------------------------------------------------------- specification
Next ==
  \/ Tick
  \/ \E v \in Variants, ok \in BOOLEAN, cfg \in Days, proceed \in BOOLEAN :
       StartRun(v, ok, cfg, proceed)
  \/ LoopEnd
  \/ Skip
  \/ QuotaBreak
  \/ Call
  \/ \E outcome \in Outcomes : Respond(outcome)
  \/ InterruptRequest
  \/ Sleep
  \/ SetLat
  \/ SetLon
  \/ SetStatus
  \/ SetTime
  \/ Checkpoint
  \/ RowSleep
  \/ WriteTmp
  \/ CopyBackup
  \/ MoveTmp
  \/ WriteLive
  \/ DailyBackup
  \/ Finish
  \/ Interrupt
  \/ LoopError
  \/ Crash
  \/ \E sel \in SUBSET Days, asc \in BOOLEAN, yes \in BOOLEAN :
       merge_daily_backups(sel, asc, yes)
  \/ \E choice \in 0..3 : fix_and_recover(choice)

Spec == Init /\ [][Next]_vars

\* The fault-free environment: no interrupt, no read error, no exception in
\* the loop or in a request, the base and daily runners only; the process can still be killed
\* while it saves.  A longer input and one more run than in Spec.
InitQuiet == input = InputOf(DeepRows) /\ Blank

QuietRun(v) == runs < DeepRuns /\ Begin(v, TRUE, now, TRUE)

CrashInSave == pc \in {"s_tmp", "s_bak", "s_mv", "s_live"} /\ Crash

NextQuiet ==
  \/ Tick
  \/ \E v \in {"base", "daily"} : QuietRun(v)
  \/ LoopEnd
  \/ Skip
  \/ QuotaBreak
  \/ Call
  \/ \E outcome \in {"point", "nopoint"} : Respond(outcome)
  \/ Sleep
  \/ SetLat
  \/ SetLon
  \/ SetStatus
  \/ SetTime
  \/ Checkpoint
  \/ RowSleep
  \/ WriteTmp
  \/ CopyBackup
  \/ MoveTmp
  \/ WriteLive
  \/ DailyBackup
  \/ Finish
  \/ CrashInSave
  \/ \E sel \in SUBSET Days, asc \in BOOLEAN, yes \in BOOLEAN :
       merge_daily_backups(sel, asc, yes)

SpecQuiet == InitQuiet /\ [][NextQuiet]_vars

\* One run in depth: every input of LadderRows records drawn from the six
\* kinds of record, one run of any runner on an empty output directory or on
\* the snapshot of an earlier day, with interrupts, exceptions in the loop and in requests, and failing
\* writes; the process is not killed and no tool runs.
Records == 1..6

\* the snapshot a run of an earlier day (day 0) leaves when it resolves the
\* first row by its first candidate and is then stopped
Earlier(inp) ==
  IF Attempts(inp[1]) = <<>> THEN Fresh(inp)
  ELSE [Fresh(inp) EXCEPT ![1] = [addr |-> inp[1],
                                  lat |-> ParsePoint(Answer(inp[1], 1)).lat,
                                  lon |-> ParsePoint(Answer(inp[1], 1)).lon,
                                  status |-> "success", ts |-> <<0, 1>>]]

InitLadder ==
  /\ input \in [1..LadderRows -> Records]
  /\ live \in {NoFile, WriteCsv(Earlier(input))}
  /\ BlankBut

OneRun(v) == runs = 0 /\ Begin(v, TRUE, now, TRUE)

NextLadder ==
  \/ \E v \in Variants : OneRun(v)
  \/ LoopEnd
  \/ Skip
  \/ QuotaBreak
  \/ Call
  \/ \E outcome \in Outcomes : Respond(outcome)
  \/ InterruptRequest
  \/ Sleep
  \/ SetLat
  \/ SetLon
  \/ SetStatus
  \/ SetTime
  \/ Checkpoint
  \/ RowSleep
  \/ WriteTmp
  \/ CopyBackup
  \/ MoveTmp
  \/ WriteLive
  \/ DailyBackup
  \/ Finish
  \/ Interrupt
  \/ LoopError
  \/ WriteFail

SpecLadder == InitLadder /\ [][NextLadder]_vars


\* The index joins on their own: the recovery tools run on an input of NRows
\* records with daily files of up to DeepRows rows (more rows than the input
\* has, as after the input file was replaced by a shorter one) and a
\* progress file shorter than the input.
Resolved(a) ==
  [addr |-> a, lat |-> ParsePoint(Answer(a, 1)).lat,
   lon |-> ParsePoint(Answer(a, 1)).lon, status |-> "success", ts |-> <<1, 1>>]

JoinKinds == {FreshRow(1)} \cup {Resolved(a) : a \in 1..DeepRows}

SeqsUpTo(S, n) == UNION {[1..m -> S] : m \in 1..n}

InitJoin ==
  /\ input = InputOf(NRows)
  /\ daily \in [Days -> {NoFile} \cup
                         {WriteCsv(d) : d \in SeqsUpTo(JoinKinds, DeepRows)}]
  /\ live \in {NoFile} \cup {WriteCsv(d) : d \in SeqsUpTo(JoinKinds, NRows - 1)}
  /\ BlankRest

NextJoin ==
  \/ \E sel \in SUBSET Days, asc \in BOOLEAN, yes \in BOOLEAN :
       merge_daily_backups(sel, asc, yes)
  \/ \E choice \in 0..3 : fix_and_recover(choice)

SpecJoin == InitJoin /\ [][NextJoin]_vars

\* The string functions on their own: clean_address is called on a value of
\* an address column (NaN, a blank string, or up to MaxWords words joined by
\* single spaces), up to MaxCalls times, and extract_address_candidates of
\* one of the runners on what it returned.
MaxWords == 5
MaxCalls == 2
Words ==
  { <<"gang", "won", "teuk", "byeol", "ja", "chi", "do">>,
    <<"won", "rong", "myeon">>,
    <<"chung", "jeon", "gi">>,
    <<"ap">>,
    <<"(", "ji", "sang", ")">>,
    <<"sam", "cheok", "si">>,
    <<"seo", "gwi", "po", "si">>,
    <<"ek", "seu", "po", "ro">>,
    <<"1", "2", "3">> }

RECURSIVE Join(_)
\* ' '.join(ws)
Join(ws) == IF Len(ws) = 1 THEN ws[1] ELSE ws[1] \o <<" ">> \o Join(Tail(ws))

\* NaN, two blank strings, and the strings of up to MaxWords different words
Given ==
  {NaN, Str(<<>>), Str(<<" ", " ">>)} \cup
  {Str(Join(ws)) : ws \in {w \in SeqsUpTo(Words, MaxWords) : NoRepeat(w)}}

InitText ==
  /\ address \in Given
  /\ cleaned = <<>> /\ calls = 0 /\ geocoder = "none" /\ candidates = <<>>
  /\ input = InputMixed(NRows)
  /\ live = NoFile /\ daily = [d \in Days |-> NoFile]
  /\ BlankRun

\* cleaned = self.clean_address(address)
Clean ==
  /\ calls < MaxCalls /\ geocoder = "none"
  /\ cleaned' = clean_address(address)
  /\ calls' = calls + 1
  /\ UNCHANGED <<address, geocoder, candidates, batch>>

\* candidates = self.extract_address_candidates(addr), of runner v
Extract(v) ==
  /\ calls > 0 /\ geocoder = "none"
  /\ geocoder' = v
  /\ candidates' = extract_address_candidates(v, cleaned)
  /\ UNCHANGED <<address, cleaned, calls, batch>>

NextText ==
  \/ Clean
  \/ \E v \in Variants : Extract(v)

SpecText == InitText /\ [][NextText]_vars
\* Runs without quota: an ordinary first run over DeepRows records, then
\* runs with DAILY_LIMIT set to 0.
InitZero == input = InputOf(DeepRows) /\ Blank

ZeroRun(v, ok) == runs \in 1..MaxRuns /\ BeginWith(v, ok, now, TRUE, 0)

NextZero ==
  \/ \E v \in Variants : OneRun(v)
  \/ \E v \in Variants, ok \in BOOLEAN : ZeroRun(v, ok)
  \/ LoopEnd
  \/ Skip
  \/ QuotaBreak
  \/ Call
  \/ \E outcome \in Outcomes : Respond(outcome)
  \/ InterruptRequest
  \/ Sleep
  \/ SetLat
  \/ SetLon
  \/ SetStatus
  \/ SetTime
  \/ Checkpoint
  \/ RowSleep
  \/ WriteTmp
  \/ CopyBackup
  \/ MoveTmp
  \/ WriteLive
  \/ DailyBackup
  \/ Finish
  \/ Interrupt
  \/ LoopError

SpecZero == InitZero /\ [][NextZero]_vars

\* ================================================================ claims
SavePcs == {"s_tmp", "s_bak", "s_mv", "s_live"}
\* the run has just ended through its final save or through a handler
RunEnded == pc = "idle" /\ op \in {"Saved", "DailyBackup", "Finish"}

\* the rows of a file that are success and carry both coordinates
Solved(f) == {i \in 1..Len(f.rows) : IsSuccess(f.rows[i]) /\ HasCoord(f.rows[i])}

SameCoord(r, q) == r.lat = q.lat /\ r.lon = q.lon

\* C1 - Skip correctness: a row that is success in the snapshot a run loaded
\* gets no request in that run, keeps its latitude, longitude, status and
\* resolved_at in memory for the whole run, and has them in progress.csv
\* whenever and however the run ends.
C1_SkipCorrectness ==
  \A i \in 1..Len(loaded) :
    IsSuccess(loaded[i]) =>
      /\ i \notin reqRows
      /\ pc /= "idle" => df[i] = loaded[i]
      /\ i <= Len(live.rows) => live.rows[i] = loaded[i]
      /\ RunEnded => i <= Len(live.rows) /\ live.whole

\* a run that found a success row has processed another row and has ended
\* after its final save
C1_Witness ==
  /\ pc = "idle" /\ op = "Finish"
  /\ dirty
  /\ \E i \in 1..Len(loaded) :
       /\ IsSuccess(loaded[i])
       /\ i <= Len(live.rows) /\ live.rows[i] = loaded[i]

\* C2 - Atomic save: a crash at any step of a snapshot save leaves
\* progress.csv existing if it existed, and holding either its complete
\* pre-save content or the complete new content.
C2_AtomicSave ==
  [][(pc \in SavePcs /\ op' = "Crash") =>
       \/ live' = live /\ (live.exists => live.whole)
       \/ live' = WriteCsv(df)]_vars

\* C3 - Reconciliation non-clobbering: every row that has coordinates in
\* progress.csv before merge_daily_backups runs has the same coordinates in
\* progress.csv afterwards.
C3_NonClobbering ==
  [][op' = "merge_daily_backups" =>
       \A i \in 1..Len(live.rows) :
         HasCoord(live.rows[i]) =>
           i <= Len(live'.rows) /\ SameCoord(live'.rows[i], live.rows[i])]_vars

\* C4 - Row index is the join key: in every snapshot the merge of daily
\* backups builds from the input, a success row carries coordinates the
\* service resolves for a candidate of the input row at that position.
C4_IndexJoin ==
  \A a \in archives :
    a.kind = "merged" =>
      \A i \in 1..Len(a.file.rows) :
        IsSuccess(a.file.rows[i]) =>
          \E n \in 1..Len(Attempts(input[i])) :
            /\ a.file.rows[i].lat = Answer(input[i], n).y
            /\ a.file.rows[i].lon = Answer(input[i], n).x

\* the row the loop would process next, at a row boundary with the quota used
AtQuota ==
  /\ pc = "loop" /\ k <= Len(todo)
  /\ ~IsSuccess(df[todo[k]])
  /\ today_count >= limit

C6_FailedTerminal ==
  \A i \in 1..Len(loaded) :
    IsFailed(loaded[i]) =>
      /\ i \notin reqRows
      /\ pc /= "idle" => df[i] = loaded[i]

\* C7 - Monotonicity: no step of a runner takes a row that is success with
\* coordinates in progress.csv out of that state or changes its coordinates.
C7_Monotonic ==
  [][(pc /= "idle" \/ pc' /= "idle") =>
       \A i \in Solved(live) :
         i \in Solved(live') /\ SameCoord(live'.rows[i], live.rows[i])]_vars

Consistent(r) ==
  /\ IsSuccess(r) <=> HasCoord(r)
  /\ r.lat = NoVal <=> r.lon = NoVal

\* C8 - Success/coordinates invariant: in every persisted snapshot a row is
\* success iff it has both coordinates, and has both or neither.
C8_SuccessIffCoords ==
  /\ \A i \in 1..Len(live.rows) : Consistent(live.rows[i])
  /\ \A a \in archives : \A i \in 1..Len(a.file.rows) : Consistent(a.file.rows[i])

\* C9 - Interruption flushes: after a KeyboardInterrupt in the row loop the
\* process is in the interrupt handler's save path until it exits.
C9_InterruptFlushes ==
  (intr /\ pc /= "idle") => (ret = "int" /\ pc \in SavePcs \cup {"daily_bk"})

\* C10 - Flush before end: a run that assigned to a row and ends other than
\* by being killed has started a save after leaving the loop.
C10_FlushBeforeEnd ==
  (pc = "idle" /\ dirty /\ op /= "Crash") => saveTried

\* the rows this run has processed (lat, lon, status and timestamp assigned)
\* whose result progress.csv does not hold
Unsaved ==
  {i \in 1..Len(df) :
     /\ df[i].ts = <<now, runs>>
     /\ ~(live.exists /\ i <= Len(live.rows) /\ live.rows[i] = df[i])}

\* C11 - Checkpoint cadence: at every point of a run at most Cadence rows have
\* been processed since progress.csv was last written, so a crash loses the
\* results of at most Cadence rows.
C11_CheckpointCadence ==
  pc /= "idle" => Cardinality(Unsaved) <= Cadence

\* C12 - Request counter counts attempts: every call of _try_geocode that
\* ends (a point, any other response, a timeout or transport error) raises
\* today_count by exactly one.
C12_CounterCountsAttempts ==
  [][(pc = "req" /\ op' = "Respond") => today_count' = today_count + 1]_vars

\* the candidates of tried, without their outcomes
TriedCands == [n \in 1..Len(tried) |-> [type |-> tried[n].type, cand |-> tried[n].cand]]

\* road candidates in sequence order, then parcel candidates in sequence order
RoadThenParcel(A) ==
  \A n \in 1..Len(A) :
    /\ A[n].cand = 1 + Cardinality({m \in 1..(n - 1) : A[m].type = A[n].type})
    /\ \A m \in 1..(n - 1) : A[m].type = "parcel" => A[n].type = "parcel"

\* C13 - Candidate ladder: geocode_address requests the road candidates in
\* order, then the parcel candidates in order; it returns success with the
\* coordinates of the first candidate that yields a point, right after that
\* request; it returns failed only when every candidate was requested and none
\* yielded a point.
C13_LadderOrder ==
  pc \in {"req", "sleep", "w_lat"} =>
    LET A == Attempts(df[Row].addr)
    IN /\ RoadThenParcel(A)
       /\ Len(tried) <= Len(A) /\ TriedCands = SubSeq(A, 1, Len(tried))
       /\ pc = "req" => att = Len(tried) + 1
       /\ \A n \in 1..Len(tried) :
            tried[n].out = "point" => n = Len(tried) /\ pc = "w_lat"
       /\ (pc = "w_lat" /\ res.status = "success") =>
            /\ tried /= <<>> /\ tried[Len(tried)].out = "point"
            /\ res.lat = Answer(df[Row].addr, Len(tried)).y
            /\ res.lon = Answer(df[Row].addr, Len(tried)).x
       /\ (pc = "w_lat" /\ res.status = "failed") =>
            /\ A /= <<>> /\ TriedCands = A
            /\ \A n \in 1..Len(tried) : tried[n].out /= "point"

\* geocode_address returned success for the parcel address after both road
\* candidates had failed
C13_Witness ==
  /\ pc = "w_lat" /\ res.status = "success" /\ Len(tried) = 3
  /\ tried[1].type = "road" /\ tried[3].type = "parcel"

\* C14 - Address-pair selection: the work list of geocode_address starts with
\* the road address iff it is present and cleans to more than 3 characters,
\* and ends with the parcel address under the same condition; when neither
\* qualifies it returns empty with no coordinates, no request and the request
\* counter unchanged.
C14_AddressPairSelection ==
  [][(op' = "Call" /\ pc = "loop" /\ ~LimitReached(today_count, limit)) =>
       LET c == AddressOf(df[Row].addr)
           roadOk == c.road.present /\ c.road.clean > 3
           parcelOk == c.parcel.present /\ c.parcel.clean > 3
           A == Attempts(df[Row].addr)
       IN /\ roadOk <=> (A /= <<>> /\ A[1].type = "road")
          /\ parcelOk <=> (A /= <<>> /\ A[Len(A)].type = "parcel")
          /\ (~roadOk /\ ~parcelOk) <=> res'.status = "empty"
          /\ res'.status = "empty" =>
               /\ res'.lat = NoVal /\ res'.lon = NoVal /\ pc' = "w_lat"
               /\ today_count' = today_count /\ reqRows' = reqRows
               /\ tried' = <<>>
          /\ res'.status /= "empty" => pc' = "req" /\ att' = 1]_vars

\* geocode_address returned empty for a record whose road address is present
\* but cleans to 3 characters
C14_Witness ==
  /\ pc = "w_lat" /\ op = "Call" /\ res.status = "empty"
  /\ AddressOf(df[Row].addr).road.present
  /\ today_count > 0

\* C17 - Save failure is fatal: once a step of the snapshot save (temporary
\* write, backup copy, replace, or the in-place write of the base runner) has
\* raised, the run has left the row loop for good: it has ended, or it is in
\* the error handler's save on its way out; a failure of the daily-backup
\* write leaves the run on the path it was on.
C17_SaveFailureFatal ==
  /\ [](saveFailed =>
         /\ endedBy = "error"
         /\ \/ pc = "idle"
            \/ ret = "err" /\ pc \in SavePcs \cup {"daily_bk"})
  /\ [][op' = "WriteFail" =>
          IF pc = "daily_bk"
            THEN /\ endedBy' = endedBy /\ saveFailed' = saveFailed
                 /\ IF ret = "final" THEN pc' = "finish" ELSE pc' = "idle"
            ELSE saveFailed' /\ pc' \notin {"loop", "rowsleep", "finish"}]_vars

\* a snapshot save raised after a row had been assigned, and the run has
\* ended with the error
C17_Witness ==
  pc = "idle" /\ op = "WriteFail" /\ saveFailed /\ endedBy = "error" /\ dirty

\* C16 - Load tolerance: a run started while progress.csv is missing or
\* cannot be read does not end there: it enters the row loop with one row per
\* input record, every row pending with no coordinates and no timestamp.
C16_LoadTolerance ==
  [][(pc = "idle" /\ runs' = runs + 1 /\ (~live.exists \/ readErr')) =>
       /\ pc' = "loop" /\ k' = 1 /\ endedBy' = "none"
       /\ Len(df') = Len(input) /\ loaded' = df'
       /\ \A i \in 1..Len(input) :
            df'[i] = [addr |-> input[i], lat |-> NoVal, lon |-> NoVal,
                      status |-> "pending", ts |-> NoTs]]_vars

\* a run has started over a progress.csv that holds a resolved row and that
\* read_csv could not read
C16_Witness ==
  /\ pc = "loop" /\ op = "StartRun" /\ live.exists /\ readErr
  /\ \E i \in 1..Len(live.rows) : IsSuccess(live.rows[i])
  /\ \A i \in 1..Len(df) : IsPending(df[i])

\* C15 - Idempotence with zero quota: no step of a run whose quota is 0
\* issues a request or changes a row of progress.csv, so one such run or two
\* in a row leave every row's status, coordinates and timestamp as they were.
C15_ZeroQuotaIdempotent ==
  [][(pc /= "idle" /\ limit <= 0 /\ live.exists) =>
       /\ today_count' = today_count
       /\ live'.exists /\ live'.rows = live.rows]_vars

\* the records a file holds an entry for
Entries(f) == {f.rows[j].addr : j \in 1..Len(f.rows)}

\* C18 - Daily backup is additive: a run of the daily or smart runner that
\* reaches its statistics has every row it stamped in the current day's
\* backup file; no step of a runner takes a record's entry out of the current
\* day's file or modifies the file of another day.
C18_DailyAdditive ==
  /\ []((pc = "finish" /\ variant /= "base") =>
          \A i \in 1..Len(df) :
            df[i].ts = <<now, runs>> =>
              \E j \in 1..Len(daily[now].rows) : daily[now].rows[j] = df[i])
  /\ [][pc /= "idle" =>
          \A d \in Days :
            IF d = now THEN Entries(daily[d]) \subseteq Entries(daily'[d])
            ELSE daily'[d] = daily[d]]_vars

\* C19 - Quota is recomputed from the snapshot: every run that enters the row
\* loop starts with its counter at 0 and with DailyLimit less the number of
\* rows of the loaded snapshot stamped with the run's date as its quota.
C19_QuotaFromSnapshot ==
  [][(pc = "idle" /\ pc' = "loop") =>
       /\ today_count' = 0
       /\ limit' = DailyLimit - check_today_usage(loaded', today_str')]_vars

\* C20 - ALL_DONE outputs: when a run ends, other than by being killed, with
\* progress.csv holding no pending row, geocoded_final_complete.csv holds
\* every row of it and geocoded_failed.csv exactly its failed rows.
C20_AllDoneOutputs ==
  [][(pc' = "idle" /\ op' \in {"Finish", "StartRun"}
        /\ live'.whole /\ WithStatus(live'.rows, "pending") = {}) =>
       /\ final' = WriteCsv(live'.rows)
       /\ failedOut'.rows = Rows(live'.rows, WithStatus(live'.rows, "failed"))]_vars

\* C21 - Cooperative cancellation: every row of a progress.csv a run writes
\* is either as the run loaded it or carries all of the run's assignments
\* (the timestamp is the last of them); a KeyboardInterrupt never leaves a row
\* saved with only some of latitude, longitude, status and timestamp updated.
C21_CooperativeCancel ==
  [][(pc /= "idle" /\ live' /= live /\ op' \notin {"Crash", "WriteFail"}) =>
       \A i \in 1..Len(live'.rows) :
         \/ live'.rows[i] = loaded[i]
         \/ live'.rows[i].ts = <<now, runs>>]_vars

\* row for row the same input columns
SameRecords(d, e) ==
  Len(d) = Len(e) /\ \A i \in 1..Len(d) : d[i].addr = e[i].addr

\* C22 - Row set is fixed: throughout a run the frame has the rows of the
\* snapshot it loaded or initialised, in the same order and with the same
\* input columns, and so has every progress.csv the run completes writing.
C22_RowSetFixed ==
  /\ [](pc /= "idle" => SameRecords(df, loaded))
  /\ [][(pc /= "idle" /\ live' /= live /\ op' /= "Crash") =>
          live'.whole /\ SameRecords(live'.rows, loaded)]_vars

\* a run has assigned to a row and completed its final save
C22_Witness ==
  /\ pc = "finish" /\ dirty /\ live.whole /\ live.rows = df
  /\ Len(df) = NRows /\ \E i \in 1..Len(df) : df[i] /= loaded[i]

\* C23 - Attempt failures never abort the run: an attempt that ends without
\* a point (any other response, a timeout or transport error) raises nothing;
\* the run stays in the row loop on the same row, goes on to the next
\* candidate if there is one and otherwise returns (None, None, failed).
C23_AttemptFailureContained ==
  [][/\ (pc = "req" /\ op' = "Respond" /\ tried'[Len(tried')].out /= "point") =>
          /\ pc' = "sleep" /\ k' = k /\ att' = att
          /\ endedBy' = endedBy /\ ret' = ret
     /\ (pc = "sleep" /\ op' = "Sleep") =>
          /\ k' = k /\ endedBy' = endedBy /\ ret' = ret
          /\ IF Len(tried) < Len(Attempts(df[Row].addr))
               THEN pc' = "req" /\ att' = Len(tried) + 1
               ELSE pc' = "w_lat" /\ res' = Outcome("failed")]_vars

\* every attempt for the first row raised, the row was recorded as failed and
\* the loop has issued a request for the next row
C23_Witness ==
  /\ pc = "req" /\ k = 2 /\ today_count = 0
  /\ df[todo[1]].status = "failed" /\ df[todo[1]].ts = <<now, runs>>

\* got is tgt with, at some positions of tgt, the coordinates a file of secs
\* holds at the same position
InBounds(got, tgt, secs) ==
  /\ Len(got) = Len(tgt)
  /\ \A p \in 1..Len(tgt) :
       \/ got[p] = tgt[p]
       \/ \E f \in secs :
            /\ p <= Len(f) /\ HasCoord(f[p])
            /\ got[p] = [tgt[p] EXCEPT !.lat = f[p].lat, !.lon = f[p].lon,
                                       !.status = "success", !.ts = f[p].ts]

\* C24 - Index join stays within bounds: the frame merge_daily_backups builds
\* from the daily files, and the one option 1 of fix_and_recover builds from
\* the progress file, has exactly the rows of the input; a row differs from
\* the blank input row only by what a joined file holds at the same index,
\* and what a file holds beyond the input's length is left out.
C24_JoinInBounds ==
  [][/\ op' = "merge_daily_backups" =>
          \A a \in archives' \ archives :
            a.kind = "merged" =>
              InBounds(a.file.rows, Fresh(input),
                       {daily[d].rows : d \in DailyDays})
     /\ (op' = "fix_and_recover"
           /\ \E a \in archives' \ archives : a.kind = "progress_broken") =>
          InBounds(live'.rows, Fresh(input), {live.rows})]_vars

\* merge_daily_backups has merged daily files that all hold a resolved row
\* beyond the input's length
C24_Witness ==
  /\ op = "merge_daily_backups"
  /\ \A d \in Days : /\ Len(daily[d].rows) > Len(input)
                      /\ HasCoord(daily[d].rows[Len(daily[d].rows)])
  /\ \E a \in archives : a.kind = "merged" /\ Len(a.file.rows) = Len(input)

\* a request is about to be issued only after a delay: the first request for
\* a row after the per-row delay of the row processed before it (or at the
\* start of the run, before any row was assigned), a later request for the
\* row after the per-request delay
DelayedRequests ==
  pc = "req" =>
    IF att = 1 THEN delay = "row" \/ (delay = "start" /\ ~dirty)
    ELSE delay = "req"

\* C25 - Backpressure ordering, as stated: no request is issued without a
\* delay since the request before it, and every request is followed by the
\* per-request delay.
C25_Backpressure ==
  /\ []DelayedRequests
  /\ [][(pc = "req" /\ op' = "Respond") => pc' = "sleep"]_vars

\* C25 - Backpressure ordering, amended: no request is issued without a delay
\* since the request before it; a request that yields no point is followed by
\* the per-request delay, a request that yields a point ends the ladder and
\* is followed by the row's assignments and the per-row delay.
C25_BackpressureBetween ==
  /\ []DelayedRequests
  /\ [][(pc = "req" /\ op' = "Respond") =>
          IF tried'[Len(tried')].out = "point"
            THEN pc' = "w_lat" /\ delay' = "none"
            ELSE pc' = "sleep"]_vars
  /\ [][(pc = "rowsleep" /\ pc' = "loop") => delay' = "row"]_vars

\* the first request for a row is about to be issued after the per-row delay
\* that followed a row resolved by this run
C25_Witness ==
  /\ pc = "req" /\ att = 1 /\ delay = "row"
  /\ \E i \in 1..Len(df) : IsSuccess(df[i]) /\ df[i].ts = <<now, runs>>

\* C30 - Requests never exceed the quota within a run: at every point of a
\* run the request counter is at most the run's limit.
C30_WithinQuota ==
  pc /= "idle" => today_count <= limit

\* C26 - Candidate sequence shape: what extract_address_candidates returns
\* for a normalized address is a list of 1 to 5 strings that starts with the
\* address and holds no string twice; every derived element is longer than
\* 5 characters, but for a district-level one (the last, ending in a district
\* suffix), which is longer than 3.
C26_CandidateShape ==
  geocoder /= "none" =>
    /\ Len(candidates) \in 1..5
    /\ candidates[1] = cleaned
    /\ NoRepeat(candidates)
    /\ \A n \in 2..Len(candidates) :
         \/ Len(candidates[n]) > 5
         \/ /\ n = Len(candidates)
            /\ Len(candidates[n]) > 3
            /\ candidates[n][Len(candidates[n])] \in SiGunGu

\* all five levels yield a candidate
C26_Witness == geocoder = "base" /\ Len(candidates) = 5

\* "gang won do sam cheok si ek seu po ro 123", its no-number form and its
\* district
LadderAddress ==
  <<"gang", "won", "do", " ", "sam", "cheok", "si", " ",
    "ek", "seu", "po", "ro", " ", "1", "2", "3">>
LadderNoNumber == SubSeq(LadderAddress, 1, 12)
LadderDistrict == SubSeq(LadderAddress, 1, 7)

\* C27 - Candidate ladder example: the candidates of the example address
\* hold, in this order, the address, its no-number form and its district
\* (geocode_address requests the candidates in the order of the list).
C27_LadderExample ==
  (geocoder /= "none" /\ cleaned = LadderAddress) =>
    \E a, b, c \in 1..Len(candidates) :
      /\ a < b /\ b < c
      /\ candidates[a] = LadderAddress
      /\ candidates[b] = LadderNoNumber
      /\ candidates[c] = LadderDistrict

\* C28 - Axis order: the latitude _try_geocode returns for a success
\* response is the point's y and the longitude its x, and these are the
\* values the row's lat and lon columns are assigned, in every runner.
C28_AxisOrder ==
  [][/\ (op' = "Respond" /\ res'.status = "success") =>
         /\ res'.lat = Answer(df[Row].addr, att).y
         /\ res'.lon = Answer(df[Row].addr, att).x
     /\ (op' = "SetLat" /\ res.status = "success") =>
         /\ df'[Row].lat = Answer(df[Row].addr, att).y
         /\ df'[Row].lon = df[Row].lon
     /\ (op' = "SetLon" /\ res.status = "success") =>
         /\ df'[Row].lon = Answer(df[Row].addr, att).x
         /\ df'[Row].lat = df[Row].lat]_vars

\* a row resolved by its second candidate has been saved
C28_Witness ==
  /\ live.exists /\ Readable(live)
  /\ \E i \in 1..Len(live.rows) :
       /\ IsSuccess(live.rows[i])
       /\ live.rows[i].lat = Answer(live.rows[i].addr, 2).y
       /\ live.rows[i].lon = Answer(live.rows[i].addr, 2).x

\* the raw example and what it is normalized to
NoisyAddress ==
  Str(Join(<< <<"gang", "won", "teuk", "byeol", "ja", "chi", "do">>,
              <<"won", "rong", "myeon">>, <<"chung", "jeon", "gi">>,
              <<"ap">>, <<"(", "ji", "sang", ")">> >>))
NoisyCleaned == <<"gang", "won", "do", " ", "wol", "rong", "myeon">>

\* C29 - Normalization is a deterministic pure function: a call of
\* clean_address returns what the call before returned for the same value,
\* leaves the counter, the snapshot and everything else as they were,
\* returns the empty string for NaN and for a blank string, and the example's
\* normalized form for the example.
C29_NormalizePure ==
  [][calls' = calls + 1 =>
       /\ calls > 0 => cleaned' = cleaned
       /\ UNCHANGED <<batch, address, geocoder, candidates>>
       /\ (\/ address.isna
           \/ \A n \in 1..Len(address.chars) : address.chars[n] = " ") =>
            cleaned' = <<>>
       /\ address = NoisyAddress => cleaned' = NoisyCleaned]_vars

\* the example was normalized twice
C29_Witness ==
  address = NoisyAddress /\ calls = MaxCalls /\ cleaned = NoisyCleaned

\* every file under output/
AllFiles ==
  {live, backup, tmp, final, failedOut} \cup {daily[d] : d \in Days} \cup
  {a.file : a \in archives}

\* C35 - No row is ever written with status limit_reached: in the DataFrame
\* of a run and in every file, the status of every row is one of pending,
\* success, failed and empty.
C35_NoLimitReached ==
  /\ \A i \in 1..Len(df) :
       df[i].status \in {"pending", "success", "failed", "empty"}
  /\ \A f \in AllFiles : \A i \in 1..Len(f.rows) :
       f.rows[i].status \in {"pending", "success", "failed", "empty"}

\* the loop has left on the quota with a pending row ahead, and has saved
C35_Witness ==
  /\ endedBy = "quota" /\ pc = "finish"
  /\ \E i \in 1..Len(live.rows) : IsPending(live.rows[i])

\* C32 - The recovery tool never destroys a checkpoint unprotected: when
\* fix_and_recover runs on an existing progress.csv, a timestamped copy of
\* that file exists afterwards, and a row that had coordinates in a progress
\* file as long as the input still has them.
C32_RecoveryProtects ==
  [][(op' = "fix_and_recover" /\ live.exists) =>
       /\ \E a \in archives' : a.file = live
       /\ Len(live.rows) >= Len(input) =>
            \A i \in 1..Len(live.rows) :
              HasCoord(live.rows[i]) =>
                i <= Len(live'.rows) /\ SameCoord(live'.rows[i], live.rows[i])]_vars

\* C39 - Rebuild from a truncated checkpoint: option 1 of fix_and_recover
\* leaves a progress.csv with the input's rows in input order, in which a
\* row is success with the old latitude, longitude and resolved_at if the
\* damaged file had both coordinates at that position, and is pending
\* without coordinates otherwise.
C39_RebuildTruncated ==
  [][(/\ op' = "fix_and_recover"
      /\ [kind |-> "progress_broken", file |-> live] \in archives' \ archives) =>
       /\ live'.exists /\ live'.whole /\ Len(live'.rows) = Len(input)
       /\ \A i \in 1..Len(input) :
            IF i <= Len(live.rows) /\ HasCoord(live.rows[i])
              THEN live'.rows[i] =
                     [addr |-> input[i], lat |-> live.rows[i].lat,
                      lon |-> live.rows[i].lon, status |-> "success",
                      ts |-> live.rows[i].ts]
              ELSE live'.rows[i] = FreshRow(input[i])]_vars

\* a damaged file with a resolved row was rebuilt
C39_Witness ==
  /\ op = "fix_and_recover"
  /\ \E a \in archives :
       /\ a.kind = "progress_broken"
       /\ \E i \in 1..Len(a.file.rows) :
            HasCoord(a.file.rows[i]) /\ IsSuccess(live.rows[i])
  /\ \E i \in 1..Len(live.rows) : live.rows[i] = FreshRow(input[i])

\* the number of success rows of a file
Successes(f) == Cardinality(WithStatus(f.rows, "success"))

\* C36 - Guarded replacement of the checkpoint by the merge tool: when
\* merge_daily_backups runs on an existing progress.csv, either the file is
\* left as it was, or it then holds strictly more success rows than before
\* and a timestamped copy of the file as it was exists.
C36_GuardedReplace ==
  [][(op' = "merge_daily_backups" /\ live.exists) =>
       \/ live' = live
       \/ /\ Successes(live') > Successes(live)
          /\ [kind |-> "progress_backup", file |-> live] \in archives'
          /\ [kind |-> "merged", file |-> live'] \in archives']_vars

\* the merge tool has replaced a progress file, and has kept its copy
C36_Witness ==
  /\ op = "merge_daily_backups"
  /\ \E a \in archives :
       /\ a.kind = "progress_backup" /\ a.file.exists
       /\ Successes(live) > Successes(a.file)

\* every row that is a success row in file g is a success row in file f
Keeps(f, g) ==
  \A i \in 1..Len(g.rows) :
    IsSuccess(g.rows[i]) =>
      f.exists /\ i <= Len(f.rows) /\ IsSuccess(f.rows[i])

\* C33 - A run that starts from an unreadable progress file does not destroy
\* the last good copy: when its first save copies progress.csv to
\* progress.csv.backup, the new backup or the snapshot about to be moved
\* over progress.csv holds every success row the backup held before.
C33_LastGoodCopy ==
  [][(op' = "CopyBackup" /\ readErr /\ ~Readable(live) /\ backup.exists) =>
       Keeps(backup', backup) \/ Keeps(tmp, backup)]_vars

\* The pending-only runner on its own: runs of geocode_vworld_smart.py from an
\* empty output directory, ended by completion, by the quota or by Ctrl-C;
\* the files are read and written without failure and the process is not
\* killed.
SmartRun(cfg, proceed) == runs < DeepRuns /\ Begin("smart", TRUE, cfg, proceed)

NextSmart ==
  \/ Tick
  \/ \E cfg \in Days, proceed \in BOOLEAN : SmartRun(cfg, proceed)
  \/ LoopEnd
  \/ QuotaBreak
  \/ Call
  \/ \E outcome \in {"point", "nopoint"} : Respond(outcome)
  \/ InterruptRequest
  \/ Sleep
  \/ SetLat
  \/ SetLon
  \/ SetStatus
  \/ SetTime
  \/ Checkpoint
  \/ RowSleep
  \/ WriteTmp
  \/ CopyBackup
  \/ MoveTmp
  \/ DailyBackup
  \/ Finish
  \/ Interrupt

SpecSmart == InitQuiet /\ [][NextSmart]_vars

\* the positions of file f that hold input row a
Copies(f, a) == {j \in 1..Len(f.rows) : f.rows[j].addr = a}

\* C34 - Daily backup merge deduplicates: after save_daily_backup_safe has
\* updated an existing daily file, the file holds every row processed that
\* day exactly once, in its latest version.
C34_DailyDedup ==
  [][(op' = "DailyBackup" /\ variant = "smart"
        /\ Readable(daily[today_str]) /\ Today(df, today_str) /= {}) =>
       \A i \in Today(df, today_str) :
         /\ Cardinality(Copies(daily'[today_str], df[i].addr)) = 1
         /\ \A j \in Copies(daily'[today_str], df[i].addr) :
              daily'[today_str].rows[j] = df[i]]_vars

\* the rows that are not pending come before every pending row
Prefix(rows) ==
  \A i \in 1..Len(rows), j \in 1..Len(rows) :
    (i < j /\ IsPending(rows[i])) => IsPending(rows[j])

\* C37 - Resume point is a prefix: under runs of the pending-only runner from
\* an all-pending start, the non-pending rows of every saved progress.csv
\* form a prefix of the row order, and every row a run takes up is the first
\* pending row of its frame.
C37_ResumePrefix ==
  /\ [](live.exists => Prefix(live.rows))
  /\ [][op' = "Call" =>
          /\ IsPending(df[Row])
          /\ \A i \in 1..(Row - 1) : ~IsPending(df[i])]_vars
\* a second or later run resumes behind the rows already done
C37_Witness ==
  /\ variant = "smart" /\ op = "Call" /\ runs > 1 /\ Row > 1
  /\ live.exists /\ ~IsPending(live.rows[1])

\* C40 - Per-run batch export: when a run of geocode_vworld.py that made at
\* least one request ends without being interrupted, it writes a new batch
\* file, numbered one above the highest existing batch number, holding
\* exactly the rows stamped with the day of the run.
C40_BatchExport ==
  [][(op' = "Finish" /\ variant = "base" /\ today_count > 0) =>
       \E a \in archives' \ archives :
         /\ a.kind = "batch" /\ a.num = get_batch_number(archives)
         /\ a.file = WriteCsv(Rows(df, Today(df, today_str)))]_vars

\* C31 - Runs make progress on pending rows: a run of the daily runner that
\* starts with a positive quota and a pending row, and runs to its end, has
\* turned at least one row that was pending at its start into a row that is
\* not pending in the progress.csv it leaves (so that repeated runs bring the
\* number of pending rows to zero).
C31_PendingProgress ==
  [][(variant = "daily" /\ pc /= "idle" /\ pc' = "idle"
        /\ op' \in {"Finish", "DailyBackup"} /\ endedBy \in {"none", "quota"}
        /\ limit > 0 /\ WithStatus(loaded, "pending") /= {}) =>
       \E i \in WithStatus(loaded, "pending") :
         i <= Len(live'.rows) /\ ~IsPending(live'.rows[i])]_vars

\* Runs that are left alone: the base and daily runners with any quota up to
\* DailyLimit, on the snapshot the run before left; every request returns,
\* nothing raises, nobody presses Ctrl-C and the process is not killed.  A
\* script that has started keeps executing its statements: weak fairness on
\* the steps of the run.
FairRun(v, cap) == runs < DeepRuns /\ BeginWith(v, TRUE, now, TRUE, cap)

RunStep ==
  \/ LoopEnd
  \/ Skip
  \/ QuotaBreak
  \/ Call
  \/ \E outcome \in {"point", "nopoint"} : Respond(outcome)
  \/ Sleep
  \/ SetLat
  \/ SetLon
  \/ SetStatus
  \/ SetTime
  \/ Checkpoint
  \/ RowSleep
  \/ WriteTmp
  \/ CopyBackup
  \/ MoveTmp
  \/ WriteLive
  \/ DailyBackup
  \/ Finish

NextFair ==
  \/ Tick
  \/ \E v \in {"base", "daily"}, cap \in 0..DailyLimit : FairRun(v, cap)
  \/ RunStep

SpecFair == InitQuiet /\ [][NextFair]_vars /\ WF_vars(RunStep)

\* no candidate of a row is requested twice
OncePerCandidate ==
  \A m \in 1..Len(tried), n \in 1..Len(tried) :
    (tried[m].type = tried[n].type /\ tried[m].cand = tried[n].cand) => m = n

====
